---- MODULE Spec2Model ----
(***************************************************************************)
(* Model of deltachat_rpc_client/client.py: the hook registry of Client,   *)
(* the dispatcher _on_event, the message sub-loop _process_messages and    *)
(* the main loop run_forever.  One action per await point / statement of   *)
(* the coroutines; the account, the filters and the handlers are the       *)
(* environment and are drawn nondeterministically.                         *)
(***************************************************************************)
EXTENDS Integers, Sequences, FiniteSets, TLC

\* ------------------------------------------------------------------ bounds
MaxMsgs == 2        \* messages the account ever reports (ids 1..MaxMsgs)
MaxEvents == 1      \* events run_forever pulls before the model stops

\* ------------------------------------------------------- values and types
Callables == {"h1", "h2"}                 \* the handlers an embedder owns
RawEvent == "RawEvent"
NewMessage == "NewMessage"
NewInfoMessage == "NewInfoMessage"
FilterTypes == {RawEvent, NewMessage, NewInfoMessage}
\* a filter class the embedder derives: class UserFilter(NewMessage)
UserFilter == "UserFilter"
INCOMING_MSG == "INCOMING_MSG"
INFO == "INFO"
EventTypes == {INCOMING_MSG, INFO}
\* event.type as the account delivers it, before line 65
RawTypes == {"IncomingMsg", "Info"}
\* EventType(event.type): the enum member of const.py with that value
EventType(raw) == IF raw = "IncomingMsg" THEN INCOMING_MSG ELSE INFO
Msgs == 1..MaxMsgs
NoReg == <<>>
\* no add_hook / remove_hook call made yet
NoCall == [op |-> "none", reg |-> NoReg, had |-> FALSE]

\* a filter class object, as in add_hook(hook, NewMessage)
TypeObj(t) == [isType |-> TRUE, cls |-> t, arg |-> 0]
\* event() : the default instance of a filter type (client.py:37, :44)
Construct(t) == [isType |-> FALSE, cls |-> t, arg |-> 0]
FilterInstances == {Construct(t) : t \in FilterTypes}
\* what add_hook / remove_hook accept as `event`: a type or an instance
EventArgs == {TypeObj(t) : t \in FilterTypes} \cup FilterInstances
\* if isinstance(event, type): event = event()
Normalize(event) == IF event.isType THEN Construct(event.cls) ELSE event
\* type(event)
TypeOf(f) == f.cls
Regs == Callables \X FilterInstances

\* class hierarchy of events.py: NewInfoMessage derives from NewMessage (and
\* so does the embedder's UserFilter)
issubclass(t, base) ==
    \/ t = base
    \/ t = NewInfoMessage /\ base = NewMessage
    \/ t = UserFilter /\ base = NewMessage

\* configure() has not been called
NoConfigure == [at |-> "idle", bot |-> FALSE, email |-> "", password |-> "",
                extra |-> <<>>, kwargs |-> <<>>, i |-> 0, calls |-> <<>>]

\* the arguments of the configure() calls that are explored: a **kwargs dict
\* is the sequence of its items in insertion order, keys distinct
Emails == {"a@example.org", "b@example.org"}
Passwords == {"secret"}
OptionKeys == {"bot", "displayname"}
OptionValues == {"0", "1"}
Items == OptionKeys \X OptionValues
Kwargs ==
    {<<>>} \cup {<<a>> : a \in Items}
           \cup {<<a, b>> : <<a, b>> \in {x \in Items \X Items : x[1][1] # x[2][1]}}

\* key in kwargs
HasKey(kwargs, key) == \E j \in 1..Len(kwargs) : kwargs[j][1] = key

\* mutant: kwargs["bot"] = "1"
setdefault_Overwrite(kwargs, key, value) ==
    IF HasKey(kwargs, key)
    THEN [j \in 1..Len(kwargs) |->
             IF kwargs[j][1] = key THEN <<key, value>> ELSE kwargs[j]]
    ELSE Append(kwargs, <<key, value>>)

\* kwargs.setdefault(key, value): the dict afterwards
setdefault(kwargs, key, value) ==
    IF HasKey(kwargs, key) THEN kwargs ELSE Append(kwargs, <<key, value>>)

\* ---------------------------------------------------------------- registry
\* self._hooks.get(t, <default>) on the dict `hs`
Get(hs, t) == IF t \in DOMAIN hs THEN hs[t] ELSE {}

\* mutant: the registration is stored under NewMessage when its filter type
\* derives from NewMessage
add_hook_BaseKey(hs, hook, event) ==
    LET ev == Normalize(event)
        t == IF issubclass(TypeOf(ev), NewMessage) THEN NewMessage
             ELSE TypeOf(ev)
    IN IF t \in DOMAIN hs
       THEN [hs EXCEPT ![t] = @ \cup {<<hook, ev>>}]
       ELSE hs @@ (t :> {<<hook, ev>>})

\* Client.add_hook: self._hooks.setdefault(type(event), set()).add((hook, event))
add_hook(hs, hook, event) ==
    LET ev == Normalize(event)
        t == TypeOf(ev)
    IN IF t \in DOMAIN hs
       THEN [hs EXCEPT ![t] = @ \cup {<<hook, ev>>}]
       ELSE hs @@ (t :> {<<hook, ev>>})

\* mutant: self._hooks[type(event)].discard(...): only a missing key raises
remove_hook_raises_KeyOnly(hs, hook, event) ==
    TypeOf(Normalize(event)) \notin DOMAIN hs

\* Client.remove_hook raises KeyError when the pair is not in the set
remove_hook_raises(hs, hook, event) ==
    <<hook, Normalize(event)>> \notin Get(hs, TypeOf(Normalize(event)))

\* mutant: the whole set of the filter type is emptied
remove_hook_Clear(hs, hook, event) ==
    [hs EXCEPT ![TypeOf(Normalize(event))] = {}]

\* Client.remove_hook when it does not raise: the pair leaves its set, the
\* key of the filter type stays in the dict
remove_hook(hs, hook, event) ==
    LET ev == Normalize(event)
        t == TypeOf(ev)
    IN [hs EXCEPT ![t] = @ \ {<<hook, ev>>}]

\* Client._should_process_messages: any(issubclass(k, NewMessage) for k in self._hooks)
should_process_messages(hs) ==
    \E filter_type \in DOMAIN hs : issubclass(filter_type, NewMessage)

\* ------------------------------------------------------------------- state
VARIABLES
    pc,          \* position of the run_forever task
    hooks,       \* self._hooks : filter type -> set of (hook, filter)
    configured,  \* account.is_configured()
    ioStarted,   \* number of account.start_io() calls
    arrived,     \* messages the account has received so far
    fresh,       \* account: fresh messages in arrival order
    nEvents,     \* events returned by wait_for_event so far
    event,       \* type of the event being processed ("none" before the first)
    evAccount,   \* event["account"] of that event ("none" while it is not set)
    batch,       \* list returned by get_fresh_messages_in_arrival_order
    mi,          \* index in batch of the message of the for loop
    isInfo,      \* snapshot.is_info of the current message
    ftype,       \* filter_type of the _on_event call in progress ("none")
    itKey,       \* the for loop of _on_event iterates the set self._hooks[ftype]
    itUsed,      \* size of that set when the iterator was created
    itVisited,   \* registrations the iterator has yielded
    itDirty,     \* the set was mutated since the iterator was created
    itInvoked,   \* registrations whose handler this _on_event call invoked
    cur,         \* (hook, evfilter) of the loop body, NoReg outside it
    raised,      \* a handler raised in the _on_event call in progress (for a
                 \* message: kept until its mark_seen)
    error,       \* exception that left run_forever ("none" while it runs)
    lastRemove,  \* outcome of the embedder's latest remove_hook call
    lastCall,    \* the embedder's latest add_hook / remove_hook call: its
                 \* normalised pair and whether the pair was registered then
    cfg,         \* the configure() call of the embedder, if one is made
    ndispatch,   \* per message: number of _on_event calls made for it
    nseen,       \* per message: number of mark_seen calls
    log          \* calls of the current run of _process_messages

vars == <<pc, hooks, configured, ioStarted, arrived, fresh, nEvents, event,
          batch, mi, isInfo, ftype, itKey, itUsed, itVisited, itDirty,
          itInvoked, cur, raised, error, lastRemove, ndispatch, nseen, log,
          evAccount, lastCall, cfg>>

\* variables of the account and of the main loop
loopVars == <<configured, ioStarted, arrived, fresh, nEvents, event,
              evAccount, cfg>>
\* variables of one run of _process_messages
runVars == <<batch, mi, isInfo, ndispatch, nseen, log>>
\* variables of one _on_event call
callVars == <<ftype, itKey, itUsed, itVisited, itDirty, itInvoked, cur,
              raised>>

\* Client.__init__ with hooks=None: empty registry, run_forever not called
Init ==
    /\ pc = "init"
    /\ hooks = <<>>
    /\ configured \in BOOLEAN
    /\ ioStarted = 0
    /\ arrived \in 0..MaxMsgs
    /\ fresh = [i \in 1..arrived |-> i]
    /\ nEvents = 0
    /\ event = "none"
    /\ evAccount = "none"
    /\ lastCall = NoCall
    /\ cfg = NoConfigure
    /\ batch = <<>>
    /\ mi = 0
    /\ isInfo = FALSE
    /\ ftype = "none"
    /\ itKey = FALSE
    /\ itUsed = 0
    /\ itVisited = {}
    /\ itDirty = FALSE
    /\ itInvoked = {}
    /\ cur = NoReg
    /\ raised = FALSE
    /\ error = "none"
    /\ lastRemove = "none"
    /\ ndispatch = [m \in Msgs |-> 0]
    /\ nseen = [m \in Msgs |-> 0]
    /\ log = <<>>

\* ------------------------------------------------ embedder calls, pre-run
\* client.add_hook(hook, event) before run_forever
AddHook(hook, ev) ==
    /\ pc = "init"
    /\ hooks' = add_hook(hooks, hook, ev)
    /\ lastCall' = [op |-> "add", reg |-> <<hook, Normalize(ev)>>,
                    had |-> <<hook, Normalize(ev)>>
                               \in Get(hooks, TypeOf(Normalize(ev)))]
    /\ UNCHANGED <<pc, loopVars, runVars, callVars, error, lastRemove>>

\* mutant: remove_hook looks the set up with setdefault, a failed call
\* leaves an empty set under a key that was absent
RemoveHook_SetDefault(hook, ev) ==
    /\ pc = "init"
    /\ IF remove_hook_raises(hooks, hook, ev)
       THEN /\ lastRemove' = "KeyError"
            /\ hooks' = IF TypeOf(Normalize(ev)) \in DOMAIN hooks
                        THEN hooks
                        ELSE hooks @@ (TypeOf(Normalize(ev)) :> {})
       ELSE /\ lastRemove' = "ok"
            /\ hooks' = remove_hook(hooks, hook, ev)
    /\ lastCall' = [op |-> "remove", reg |-> <<hook, Normalize(ev)>>,
                    had |-> <<hook, Normalize(ev)>>
                               \in Get(hooks, TypeOf(Normalize(ev)))]
    /\ UNCHANGED <<pc, loopVars, runVars, callVars, error>>

\* client.remove_hook(hook, event) before run_forever
RemoveHook(hook, ev) ==
    /\ pc = "init"
    /\ IF remove_hook_raises(hooks, hook, ev)
       THEN /\ lastRemove' = "KeyError"
            /\ UNCHANGED hooks
       ELSE /\ lastRemove' = "ok"
            /\ hooks' = remove_hook(hooks, hook, ev)
    /\ lastCall' = [op |-> "remove", reg |-> <<hook, Normalize(ev)>>,
                    had |-> <<hook, Normalize(ev)>>
                               \in Get(hooks, TypeOf(Normalize(ev)))]
    /\ UNCHANGED <<pc, loopVars, runVars, callVars, error>>

\* ------------------------------------------------------------ run_forever
\* mutant: run_forever without line 62, the startup run of the sub-loop
RunForever_SkipStartup ==
    /\ pc = "init"
    /\ ioStarted' = IF configured THEN ioStarted + 1 ELSE ioStarted
    /\ pc' = "wait"
    /\ lastRemove' = "none"
    /\ lastCall' = NoCall
    /\ UNCHANGED <<hooks, configured, arrived, fresh, nEvents, event,
                   evAccount, cfg, runVars, callVars, error>>

\* run_forever, lines 59-62: is_configured, start_io, call _process_messages
RunForever ==
    /\ pc = "init"
    /\ ioStarted' = IF configured THEN ioStarted + 1 ELSE ioStarted
    /\ pc' = "guard"
    /\ lastRemove' = "none"
    /\ lastCall' = NoCall
    /\ UNCHANGED <<hooks, configured, arrived, fresh, nEvents, event,
                   evAccount, cfg, runVars, callVars, error>>

\* entry of _on_event(ev, filter_type): the for statement creates the
\* iterator of self._hooks.get(filter_type, [])
EnterOnEvent(filter_type) ==
    /\ ftype' = filter_type
    /\ itKey' = (filter_type \in DOMAIN hooks)
    /\ itUsed' = Cardinality(Get(hooks, filter_type))
    /\ itVisited' = {}
    /\ itDirty' = FALSE
    /\ itInvoked' = {}
    /\ cur' = NoReg
    /\ raised' = FALSE
    /\ pc' = "iter"

\* mutant: the loop body starts the account's I/O again for every event
WaitForEvent_StartIo(raw, k) ==
    /\ pc = "wait"
    /\ nEvents < MaxEvents
    /\ arrived + k <= MaxMsgs
    /\ nEvents' = nEvents + 1
    /\ event' = EventType(raw)
    /\ evAccount' = "account"
    /\ arrived' = arrived + k
    /\ fresh' = IF k = 1 THEN Append(fresh, arrived + 1) ELSE fresh
    /\ ioStarted' = IF configured THEN ioStarted + 1 ELSE ioStarted
    /\ EnterOnEvent(RawEvent)
    /\ UNCHANGED <<hooks, configured, cfg, runVars, error,
                   lastRemove, lastCall>>

\* mutant: an INCOMING_MSG event runs the sub-loop first, without the
\* dispatch to the RawEvent registrations
WaitForEvent_SubLoopFirst(raw, k) ==
    /\ pc = "wait"
    /\ nEvents < MaxEvents
    /\ arrived + k <= MaxMsgs
    /\ nEvents' = nEvents + 1
    /\ event' = EventType(raw)
    /\ evAccount' = "account"
    /\ arrived' = arrived + k
    /\ fresh' = IF k = 1 THEN Append(fresh, arrived + 1) ELSE fresh
    /\ IF EventType(raw) = INCOMING_MSG
       THEN pc' = "guard" /\ UNCHANGED callVars
       ELSE EnterOnEvent(RawEvent)
    /\ UNCHANGED <<hooks, configured, ioStarted, cfg, runVars, error,
                   lastRemove, lastCall>>

\* while True: event = await wait_for_event(); tag it; await _on_event(event)
\* The account may have received a new message by the time it yields.
WaitForEvent(raw, k) ==
    /\ pc = "wait"
    /\ nEvents < MaxEvents
    /\ arrived + k <= MaxMsgs
    /\ nEvents' = nEvents + 1
    /\ event' = EventType(raw)
    /\ evAccount' = "account"
    /\ arrived' = arrived + k
    /\ fresh' = IF k = 1 THEN Append(fresh, arrived + 1) ELSE fresh
    /\ EnterOnEvent(RawEvent)
    /\ UNCHANGED <<hooks, configured, ioStarted, cfg, runVars, error,
                   lastRemove, lastCall>>

\* ------------------------------------------------------ _process_messages
\* if self._should_process_messages(): ... else return to the while loop
ProcessMessagesGuard ==
    /\ pc = "guard"
    /\ pc' = IF should_process_messages(hooks) THEN "fetch" ELSE "wait"
    /\ UNCHANGED <<hooks, loopVars, runVars, callVars, error, lastRemove,
                   lastCall>>

\* await self.account.get_fresh_messages_in_arrival_order()
GetFreshMessages ==
    /\ pc = "fetch"
    /\ batch' = fresh
    /\ mi' = 1
    /\ log' = <<>>
    /\ pc' = "msg_loop"
    /\ UNCHANGED <<hooks, loopVars, isInfo, ndispatch, nseen, callVars,
                   error, lastRemove,
                   lastCall>>

\* for message in ...: snapshot = await message.get_snapshot();
\* _on_event(snapshot, NewInfoMessage if snapshot.is_info else NewMessage)
NextMessage(is_info) ==
    /\ pc = "msg_loop"
    /\ mi <= Len(batch)
    /\ isInfo' = is_info
    /\ EnterOnEvent(IF is_info THEN NewInfoMessage ELSE NewMessage)
    /\ ndispatch' = [ndispatch EXCEPT ![batch[mi]] = @ + 1]
    /\ log' = Append(log, [op |-> "dispatch", msg |-> batch[mi]])
    /\ UNCHANGED <<hooks, loopVars, batch, mi, nseen, error, lastRemove,
                   lastCall>>

\* mutant: the loop body ends in a return, the loop stops after one message
ProcessMessagesReturn_AfterFirst ==
    /\ pc = "msg_loop"
    /\ mi > 1
    /\ pc' = "wait"
    /\ UNCHANGED <<hooks, loopVars, runVars, callVars, error, lastRemove,
                   lastCall>>

\* the for loop of _process_messages is exhausted: return to run_forever
ProcessMessagesReturn ==
    /\ pc = "msg_loop"
    /\ mi > Len(batch)
    /\ pc' = "wait"
    /\ UNCHANGED <<hooks, loopVars, runVars, callVars, error, lastRemove,
                   lastCall>>

\* mutant: mark_seen inside the success path only, skipped when a handler
\* of the message raised
MarkSeen_UnlessFailed ==
    /\ pc = "mark_seen"
    /\ nseen' = IF raised THEN nseen ELSE [nseen EXCEPT ![batch[mi]] = @ + 1]
    /\ fresh' = IF raised THEN fresh
                ELSE SelectSeq(fresh, LAMBDA m : m # batch[mi])
    /\ log' = IF raised THEN log
              ELSE Append(log, [op |-> "mark_seen", msg |-> batch[mi]])
    /\ mi' = mi + 1
    /\ isInfo' = FALSE
    /\ raised' = FALSE
    /\ pc' = "msg_loop"
    /\ UNCHANGED <<hooks, configured, ioStarted, arrived, nEvents, event,
                   evAccount, cfg, batch, ndispatch, ftype, itKey, itUsed,
                   itVisited, itDirty, itInvoked, cur, error, lastRemove,
                   lastCall>>

\* await snapshot.message.mark_seen(); the account drops it from its fresh set
MarkSeen ==
    /\ pc = "mark_seen"
    /\ nseen' = [nseen EXCEPT ![batch[mi]] = @ + 1]
    /\ fresh' = SelectSeq(fresh, LAMBDA m : m # batch[mi])
    /\ log' = Append(log, [op |-> "mark_seen", msg |-> batch[mi]])
    /\ mi' = mi + 1
    /\ isInfo' = FALSE
    /\ raised' = FALSE
    /\ pc' = "msg_loop"
    /\ UNCHANGED <<hooks, configured, ioStarted, arrived, nEvents, event,
                   evAccount, cfg, batch, ndispatch, ftype, itKey, itUsed,
                   itVisited, itDirty, itInvoked, cur, error, lastRemove,
                   lastCall>>

\* -------------------------------------------------------------- _on_event
\* mutant: line 68 dropped, the sub-loop runs after every raw event
ReturnPc_AlwaysSubLoop ==
    IF ftype = RawEvent THEN "guard" ELSE "mark_seen"

\* where _on_event returns to: _process_messages (line 92) or run_forever
\* (lines 68-69)
ReturnPc ==
    IF ftype = RawEvent
    THEN IF event = INCOMING_MSG THEN "guard" ELSE "wait"
    ELSE "mark_seen"

\* the for statement asks the set iterator for the next registration.  While
\* the set is untouched it yields each element once, in some order; after a
\* mutation that left the size unchanged the table may have been rebuilt and
\* the iterator yields any element of the set, or stops.
IterYield(r) ==
    /\ pc = "iter"
    /\ itKey
    /\ Cardinality(hooks[ftype]) = itUsed
    /\ r \in hooks[ftype]
    /\ itDirty \/ r \notin itVisited
    /\ cur' = r
    /\ itVisited' = itVisited \cup {r}
    /\ pc' = "filter"
    /\ UNCHANGED <<hooks, loopVars, runVars, ftype, itKey, itUsed, itDirty,
                   itInvoked, raised, error, lastRemove,
                   lastCall>>

\* StopIteration: _on_event returns and its iterator is dropped
OnEventReturn ==
    /\ pc = "iter"
    /\ \/ ~itKey
       \/ /\ itKey
          /\ Cardinality(hooks[ftype]) = itUsed
          /\ itDirty \/ hooks[ftype] \subseteq itVisited
    /\ pc' = ReturnPc
    /\ ftype' = "none"
    /\ itKey' = FALSE
    /\ itUsed' = 0
    /\ itVisited' = {}
    /\ itDirty' = FALSE
    /\ itInvoked' = {}
    /\ cur' = NoReg
    /\ raised' = (raised /\ ftype # RawEvent)
    /\ UNCHANGED <<hooks, loopVars, runVars, error, lastRemove,
                   lastCall>>

\* "RuntimeError: Set changed size during iteration", raised by the for
\* statement outside the try block: it leaves _on_event and run_forever
IterRuntimeError ==
    /\ pc = "iter"
    /\ itKey
    /\ Cardinality(hooks[ftype]) # itUsed
    /\ pc' = "crashed"
    /\ error' = "RuntimeError"
    /\ UNCHANGED <<hooks, loopVars, runVars, callVars, lastRemove,
                   lastCall>>

\* if await evfilter.filter(event): the filter answers True or False
EvalFilter(matches) ==
    /\ pc = "filter"
    /\ pc' = IF matches THEN "handler" ELSE "iter"
    /\ itInvoked' = IF matches THEN itInvoked \cup {cur} ELSE itInvoked
    /\ UNCHANGED <<hooks, loopVars, runVars, ftype, itKey, itUsed, itVisited,
                   itDirty, cur, raised, error, lastRemove,
                   lastCall>>

\* evfilter.filter(event) raises: line 75 is outside the try block
FilterRaises ==
    /\ pc = "filter"
    /\ pc' = "crashed"
    /\ error' = "FilterError"
    /\ UNCHANGED <<hooks, loopVars, runVars, callVars, lastRemove,
                   lastCall>>

\* the running handler calls client.add_hook
HandlerAddHook(hook, ev) ==
    /\ pc = "handler"
    /\ hooks' = add_hook(hooks, hook, ev)
    /\ itDirty' = (itDirty \/ Get(hooks', ftype) # Get(hooks, ftype))
    /\ UNCHANGED <<pc, loopVars, runVars, ftype, itKey, itUsed, itVisited,
                   itInvoked, cur, raised, error, lastRemove,
                   lastCall>>

\* the running handler calls client.remove_hook (and survives a KeyError)
HandlerRemoveHook(hook, ev) ==
    /\ pc = "handler"
    /\ hooks' = IF remove_hook_raises(hooks, hook, ev)
                THEN hooks
                ELSE remove_hook(hooks, hook, ev)
    /\ itDirty' = (itDirty \/ Get(hooks', ftype) # Get(hooks, ftype))
    /\ UNCHANGED <<pc, loopVars, runVars, ftype, itKey, itUsed, itVisited,
                   itInvoked, cur, raised, error, lastRemove,
                   lastCall>>

\* await hook(event) returns
HandlerReturn ==
    /\ pc = "handler"
    /\ pc' = "iter"
    /\ UNCHANGED <<hooks, loopVars, runVars, callVars, error, lastRemove,
                   lastCall>>

\* await hook(event) raises: except Exception as ex: self.logger.exception(ex)
HandlerRaises ==
    /\ pc = "handler"
    /\ raised' = TRUE
    /\ pc' = "iter"
    /\ UNCHANGED <<hooks, loopVars, runVars, ftype, itKey, itUsed, itVisited,
                   itDirty, itInvoked, cur, error, lastRemove,
                   lastCall>>

Next ==
    \/ \E h \in Callables, e \in EventArgs : AddHook(h, e)
    \/ \E h \in Callables, e \in EventArgs : RemoveHook(h, e)
    \/ RunForever
    \/ \E raw \in RawTypes, k \in 0..1 : WaitForEvent(raw, k)
    \/ ProcessMessagesGuard
    \/ GetFreshMessages
    \/ \E b \in BOOLEAN : NextMessage(b)
    \/ ProcessMessagesReturn
    \/ MarkSeen
    \/ \E r \in Regs : IterYield(r)
    \/ OnEventReturn
    \/ IterRuntimeError
    \/ \E b \in BOOLEAN : EvalFilter(b)
    \/ FilterRaises
    \/ \E h \in Callables, e \in FilterInstances : HandlerAddHook(h, e)
    \/ \E h \in Callables, e \in FilterInstances : HandlerRemoveHook(h, e)
    \/ HandlerReturn
    \/ HandlerRaises

Spec == Init /\ [][Next]_vars

\* ------------------------------------------------------------- configure
notCfg == <<pc, hooks, configured, ioStarted, arrived, fresh, nEvents, event,
            evAccount, runVars, callVars, error, lastRemove, lastCall>>

\* await client.configure(email, password, **extra) on a Client
Configure(email, password, extra) ==
    /\ cfg.at = "idle"
    /\ cfg' = [cfg EXCEPT !.at = "addr", !.bot = FALSE, !.email = email,
                          !.password = password, !.extra = extra,
                          !.kwargs = extra]
    /\ UNCHANGED notCfg

\* await bot.configure(email, password, **extra) on a Bot: setdefault, then
\* super().configure(email, password, **kwargs)
BotConfigure(email, password, extra) ==
    /\ cfg.at = "idle"
    /\ cfg' = [cfg EXCEPT !.at = "addr", !.bot = TRUE, !.email = email,
                          !.password = password, !.extra = extra,
                          !.kwargs = setdefault(extra, "bot", "1")]
    /\ UNCHANGED notCfg

\* await self.account.set_config("addr", email)
SetConfigAddr ==
    /\ cfg.at = "addr"
    /\ cfg' = [cfg EXCEPT !.at = "mail_pw",
                  !.calls = Append(@, <<"set_config", "addr", cfg.email>>)]
    /\ UNCHANGED notCfg

\* await self.account.set_config("mail_pw", password)
SetConfigMailPw ==
    /\ cfg.at = "mail_pw"
    /\ cfg' = [cfg EXCEPT !.at = "items",
                  !.calls = Append(@, <<"set_config", "mail_pw", cfg.password>>)]
    /\ UNCHANGED notCfg

\* for key, value in kwargs.items(): await self.account.set_config(key, value)
SetConfigItem ==
    /\ cfg.at = "items"
    /\ cfg.i < Len(cfg.kwargs)
    /\ cfg' = [cfg EXCEPT !.i = @ + 1,
                  !.calls = Append(@, <<"set_config", cfg.kwargs[cfg.i + 1][1],
                                       cfg.kwargs[cfg.i + 1][2]>>)]
    /\ UNCHANGED notCfg

\* the loop is exhausted: await self.account.configure()
AccountConfigure ==
    /\ cfg.at = "items"
    /\ cfg.i = Len(cfg.kwargs)
    /\ cfg' = [cfg EXCEPT !.at = "done", !.calls = Append(@, <<"configure">>)]
    /\ UNCHANGED notCfg

ConfigNext ==
    \/ \E e \in Emails, p \in Passwords, x \in Kwargs : Configure(e, p, x)
    \/ \E e \in Emails, p \in Passwords, x \in Kwargs : BotConfigure(e, p, x)
    \/ SetConfigAddr
    \/ SetConfigMailPw
    \/ SetConfigItem
    \/ AccountConfigure

ConfigSpec == Init /\ [][ConfigNext]_vars

\* ------------------------------------------------- a derived filter type
\* an embedder with one handler that also registers it under UserFilter
SubtypeCallables == {"h1"}
SubtypeInstances == {Construct(t) : t \in FilterTypes \cup {UserFilter}}
SubtypeRegs == SubtypeCallables \X SubtypeInstances

SubtypeNext ==
    \/ \E h \in SubtypeCallables, e \in SubtypeInstances : AddHook(h, e)
    \/ \E h \in SubtypeCallables, e \in SubtypeInstances : RemoveHook(h, e)
    \/ RunForever
    \/ \E raw \in RawTypes, k \in 0..1 : WaitForEvent(raw, k)
    \/ ProcessMessagesGuard
    \/ GetFreshMessages
    \/ \E b \in BOOLEAN : NextMessage(b)
    \/ ProcessMessagesReturn
    \/ MarkSeen
    \/ \E r \in SubtypeRegs : IterYield(r)
    \/ OnEventReturn
    \/ IterRuntimeError
    \/ \E b \in BOOLEAN : EvalFilter(b)
    \/ FilterRaises
    \/ \E h \in SubtypeCallables, e \in SubtypeInstances : HandlerAddHook(h, e)
    \/ \E h \in SubtypeCallables, e \in SubtypeInstances :
          HandlerRemoveHook(h, e)
    \/ HandlerReturn
    \/ HandlerRaises

SubtypeSpec == Init /\ [][SubtypeNext]_vars

\* the registry alone: any sequence of add_hook / remove_hook calls on a
\* client whose run_forever has not been called
RegistryNext ==
    \/ \E h \in Callables, e \in EventArgs : AddHook(h, e)
    \/ \E h \in Callables, e \in EventArgs : RemoveHook(h, e)

RegistrySpec == Init /\ [][RegistryNext]_vars

TypeOK ==
    /\ pc \in {"init", "guard", "fetch", "msg_loop", "mark_seen", "iter",
               "filter", "handler", "wait", "crashed"}
    /\ DOMAIN hooks \subseteq FilterTypes \cup {UserFilter}
    /\ \A t \in DOMAIN hooks : hooks[t] \subseteq Regs \cup SubtypeRegs
    /\ arrived \in 0..MaxMsgs
    /\ nEvents \in 0..MaxEvents
    /\ error \in {"none", "RuntimeError", "FilterError"}

\* ================================================================= claims
MsgTypes == {NewMessage, NewInfoMessage}
\* an _on_event call is in progress
InDispatch == pc \in {"iter", "filter", "handler"}
\* a run of the for loop of _process_messages is in progress
InRun ==
    \/ pc \in {"msg_loop", "mark_seen"}
    \/ InDispatch /\ ftype \in MsgTypes
\* no (handler, filter) pair is registered under a message filter type
NoMessagePairs == \A t \in MsgTypes : Get(hooks, t) = {}

\* C1: within one _on_event call, once a handler has raised, the call is not
\* left by an exception and, when it returns, every registration of the
\* filter type has been visited.
C1_HandlerFailureIsolated ==
    [][(raised /\ InDispatch) =>
          /\ pc' # "crashed"
          /\ (ftype' = "none" => Get(hooks, ftype) \subseteq itVisited)]_vars

\* C2: a failure raised by a registration's filter does not propagate: the
\* step that evaluates a filter never leaves _on_event with an exception.
C2_FilterFailureCaught ==
    [][pc = "filter" => (pc' \in {"iter", "handler"} /\ error' = "none")]_vars

\* C3: in a run of _process_messages the calls are, in this order and for
\* the messages in the returned order, dispatch(m1), mark_seen(m1),
\* dispatch(m2), mark_seen(m2), ...; a message is dispatched under
\* NewInfoMessage exactly when its snapshot is_info and under NewMessage
\* otherwise; once the run is over every returned message has been
\* dispatched once and marked seen once.
C3_SubLoopOrder ==
    /\ \A i \in 1..Len(log) :
          LET j == (i + 1) \div 2 IN
          /\ j <= Len(batch)
          /\ log[i].msg = batch[j]
          /\ log[i].op = IF i % 2 = 1 THEN "dispatch" ELSE "mark_seen"
    /\ (InDispatch /\ ftype # RawEvent) =>
          ftype = IF isInfo THEN NewInfoMessage ELSE NewMessage
    /\ ~InRun => Len(log) = 2 * Len(batch)

\* C4: if a handler raised while message B was being dispatched, B is marked
\* seen by the time the run of the sub-loop is over.
C4_FailedMessageStillSeen ==
    (raised /\ ftype \in MsgTypes /\ ~InRun) => nseen[batch[mi]] >= 1

\* C5: when no (handler, filter) pair is registered under NewMessage or
\* NewInfoMessage, the sub-loop entered for an INCOMING_MSG event does not
\* go on to get_fresh_messages_in_arrival_order.
C5_NoPairsNoFetch ==
    [][(pc = "guard" /\ event = INCOMING_MSG /\ NoMessagePairs)
          => pc' # "fetch"]_vars

\* C6: a registration change made by a running handler never makes the
\* dispatch call in progress fail.
C6_MutationInHandlerLegal ==
    itDirty => error # "RuntimeError"

\* C7 (as stated): when run_forever reaches its first wait_for_event, every
\* message that was fresh at startup has been dispatched exactly once and
\* marked seen.
C7_Original ==
    (pc = "wait" /\ nEvents = 0) =>
        \A m \in 1..arrived : ndispatch[m] = 1 /\ nseen[m] = 1

\* C7 (amended): the same, provided the registry holds a filter type that is
\* NewMessage or a subclass of it.  (No handler runs before the first wait
\* when the guard is false, and keys are never deleted, so the guard at the
\* first wait is the guard of the startup run.)
C7_StartupDrain ==
    (pc = "wait" /\ nEvents = 0 /\ should_process_messages(hooks)) =>
        /\ \A m \in 1..arrived : ndispatch[m] = 1 /\ nseen[m] = 1
        /\ fresh = <<>>
        /\ event = "none"

C7_Witness ==
    /\ pc = "wait" /\ nEvents = 0 /\ event = "none"
    /\ arrived >= 2
    /\ \A m \in 1..arrived : ndispatch[m] = 1 /\ nseen[m] = 1

\* C8: no message is dispatched in more than one run of the sub-loop.
C8_NoRedelivery ==
    \A m \in Msgs : ndispatch[m] <= 1

\* a later poll has returned, without message 1, which an earlier run
\* dispatched and marked seen
C8_Witness ==
    /\ pc = "msg_loop" /\ nEvents >= 1 /\ mi = 1
    /\ Len(batch) >= 1
    /\ \A i \in 1..Len(batch) : batch[i] # 1
    /\ ndispatch[1] = 1 /\ nseen[1] = 1

\* C9: the sub-loop is entered only from run_forever's startup or directly
\* after the raw dispatch of an INCOMING_MSG event; after the raw dispatch of
\* any other event the loop goes straight to wait_for_event with no fetch,
\* snapshot or mark_seen; a fetch happens only inside the sub-loop.
C9_SubLoopOnlyAfterIncoming ==
    [][/\ pc' = "guard" =>
             \/ pc = "init"
             \/ pc = "iter" /\ ftype = RawEvent /\ event = INCOMING_MSG
       /\ (pc = "iter" /\ ftype = RawEvent /\ ftype' = "none"
              /\ event # INCOMING_MSG) =>
             /\ pc' = "wait"
             /\ <<batch, fresh, ndispatch, nseen, log>>'
                   = <<batch, fresh, ndispatch, nseen, log>>
       /\ pc' = "fetch" => pc = "guard"]_vars

\* an event of another type was processed while a message hook is
\* registered and a fresh message is pending; the loop is back at its wait
C9_Witness ==
    /\ pc = "wait" /\ nEvents >= 1 /\ event = INFO
    /\ should_process_messages(hooks)
    /\ fresh # <<>>

\* C10: whenever run_forever is at wait_for_event nothing of the previous
\* event is in flight: no _on_event call, no handler, and every message the
\* last fetch returned has been dispatched and marked seen.
C10_NoOverlap ==
    pc = "wait" =>
        /\ ftype = "none"
        /\ cur = NoReg
        /\ Len(log) = 2 * Len(batch)
        /\ \A i \in 1..Len(batch) :
              ndispatch[batch[i]] >= 1 /\ nseen[batch[i]] >= 1

\* back at the wait after an INCOMING_MSG event whose sub-loop run handled
\* two messages, the second of which arrived with the event
C10_Witness ==
    /\ pc = "wait" /\ nEvents >= 1 /\ event = INCOMING_MSG
    /\ Len(batch) >= 2
    /\ batch[Len(batch)] = arrived
    /\ Len(log) = 2 * Len(batch)

\* the handler of a registration is invoked at most once in an _on_event call
InvokedOnce ==
    (pc = "filter" /\ pc' = "handler") => cur \notin itInvoked

\* C11: add_hook of a pair that is already registered leaves the registry
\* unchanged, and the handler of a registered pair is invoked at most once
\* per dispatched event.
C11_AddIdempotent ==
    [][/\ (lastCall'.op = "add" /\ lastCall'.had) => hooks' = hooks
       /\ InvokedOnce]_vars

\* C12: remove_hook of a pair that is not registered raises KeyError to its
\* caller, whether the filter type has other registrations, an empty set or
\* no key at all.
C12_RemoveUnregisteredRaises ==
    (lastCall.op = "remove" /\ ~lastCall.had) => lastRemove = "KeyError"

\* a failed remove_hook of a pair whose filter type has another registration
C12_Witness ==
    /\ lastCall.op = "remove" /\ ~lastCall.had
    /\ lastRemove = "KeyError"
    /\ Get(hooks, TypeOf(lastCall.reg[2])) # {}

\* C13: remove_hook of a registered pair succeeds; afterwards the pair is
\* absent and the registrations under every filter type are the former ones
\* without that pair.
C13_RemoveExactlyThatPair ==
    [][(lastCall'.op = "remove" /\ lastCall'.had /\ lastCall' # lastCall) =>
          /\ lastRemove' = "ok"
          /\ lastCall'.reg \notin Get(hooks', TypeOf(lastCall'.reg[2]))
          /\ DOMAIN hooks' = DOMAIN hooks
          /\ \A t \in FilterTypes :
                Get(hooks', t) = Get(hooks, t) \ {lastCall'.reg}]_vars

\* a pair was removed while another pair of its filter type and a pair of
\* another filter type stay registered
C13_Witness ==
    /\ lastCall.op = "remove" /\ lastCall.had
    /\ lastRemove = "ok"
    /\ Get(hooks, TypeOf(lastCall.reg[2])) # {}
    /\ \E t \in DOMAIN hooks : t # TypeOf(lastCall.reg[2]) /\ hooks[t] # {}

\* C20: a failed remove_hook leaves the registry as it was, creates no key,
\* and so leaves the value of _should_process_messages as it was.
C20_FailedRemoveNoEffect ==
    [][(lastCall'.op = "remove" /\ ~lastCall'.had) =>
          /\ hooks' = hooks
          /\ DOMAIN hooks' = DOMAIN hooks
          /\ should_process_messages(hooks') = should_process_messages(hooks)
      ]_vars

\* remove_hook of a NewMessage pair failed on a registry without the key:
\* the key is still absent and the guard is still false
C20_Witness ==
    /\ lastCall.op = "remove" /\ ~lastCall.had
    /\ lastRemove = "KeyError"
    /\ TypeOf(lastCall.reg[2]) = NewMessage
    /\ NewMessage \notin DOMAIN hooks
    /\ ~should_process_messages(hooks)
    /\ hooks # <<>>

\* the options the account was given: the set_config calls after the two
\* fixed ones and before the last call
OptionCalls ==
    {<<cfg.calls[j][2], cfg.calls[j][3]>> : j \in 3..(Len(cfg.calls) - 1)}

\* the items the caller passed to configure
ExtraItems == {cfg.extra[j] : j \in 1..Len(cfg.extra)}

\* C14: configure issues set_config("addr", email), set_config("mail_pw",
\* password), one set_config per option and only then one
\* account.configure(); the options of a Bot are the caller's plus
\* "bot"="1" when the caller gave no "bot", and the caller's alone otherwise.
C14_ConfigureCalls ==
    /\ \A j \in 1..Len(cfg.calls) :
          cfg.calls[j] = <<"configure">> =>
              j = Len(cfg.calls) /\ cfg.at = "done"
    /\ cfg.at = "done" =>
          /\ Len(cfg.calls) >= 3
          /\ cfg.calls[1] = <<"set_config", "addr", cfg.email>>
          /\ cfg.calls[2] = <<"set_config", "mail_pw", cfg.password>>
          /\ cfg.calls[Len(cfg.calls)] = <<"configure">>
          /\ \A j \in 3..(Len(cfg.calls) - 1) : cfg.calls[j][1] = "set_config"
          /\ Len(cfg.calls) - 3 = Cardinality(OptionCalls)
          /\ OptionCalls =
                 IF cfg.bot /\ \A it \in ExtraItems : it[1] # "bot"
                 THEN ExtraItems \cup {<<"bot", "1">>}
                 ELSE ExtraItems

\* a Bot was configured by a caller that passed bot="0" and another option
C14_Witness ==
    /\ cfg.at = "done"
    /\ cfg.bot
    /\ <<"bot", "0">> \in ExtraItems
    /\ Len(cfg.extra) = 2
    /\ <<"bot", "0">> \in OptionCalls

\* the filter types that are NewMessage or derive from it
NewMessageTypes == {NewMessage, NewInfoMessage, UserFilter}

C16_NeverTerminal ==
    pc # "crashed"

\* C17: start_io has been called once when is_configured is true and not at
\* all otherwise, from the moment run_forever passes its entry (so before
\* the startup run of the sub-loop and the first wait_for_event) and for the
\* rest of the run.
C17_StartIoOnce ==
    /\ pc = "init" => ioStarted = 0
    /\ pc # "init" => ioStarted = IF configured THEN 1 ELSE 0

\* a configured account, I/O started once, the loop back at its wait after
\* an event and a run of the sub-loop
C17_Witness ==
    /\ pc = "wait" /\ nEvents >= 1
    /\ configured /\ ioStarted = 1
    /\ Len(batch) >= 1

\* C18: a pulled event carries its EventType and the account before the
\* dispatch to the RawEvent registrations starts, hence before any handler
\* sees it; for an INCOMING_MSG event that dispatch has returned before the
\* guard of the sub-loop is evaluated and before a fetch, and the guard is
\* evaluated on the registry as the raw handlers left it.
C18_EnrichThenRawThenSubLoop ==
    [][/\ (pc = "wait" /\ pc' # "wait") =>
             /\ pc' = "iter" /\ ftype' = RawEvent /\ itInvoked' = {}
             /\ event' \in EventTypes /\ evAccount' = "account"
       /\ (pc' = "handler" /\ ftype = RawEvent) =>
             event \in EventTypes /\ evAccount = "account"
       /\ (pc' = "guard" /\ nEvents' >= 1) =>
             /\ pc = "iter" /\ ftype = RawEvent /\ event = INCOMING_MSG
             /\ ~itKey \/ Cardinality(hooks[ftype]) = itUsed
       /\ pc = "guard" =>
             pc' = IF should_process_messages(hooks) THEN "fetch" ELSE "wait"
       /\ pc' = "fetch" =>
             pc = "guard" /\ should_process_messages(hooks) /\ hooks' = hooks
      ]_vars

\* a message handler runs for the first message of the sub-loop run of the
\* first event, and that run fetched a message that was fresh at startup:
\* the startup guard was false, so the message hook was added by a raw
\* handler of this event
C18_Witness ==
    /\ pc = "handler" /\ ftype \in MsgTypes
    /\ nEvents = 1 /\ event = INCOMING_MSG
    /\ mi = 1 /\ batch[1] = 1 /\ Len(batch) = 2

\* C19: within an _on_event call a handler is invoked only after its own
\* registration's filter returned true for the event, with that event, and
\* no registration's handler is invoked twice.
C19_InvokedIfMatchedOnce ==
    [][(pc' = "handler" /\ pc # "handler") =>
          /\ pc = "filter"
          /\ cur' = cur /\ cur # NoReg
          /\ <<event, evAccount, batch, mi>>' = <<event, evAccount, batch, mi>>
          /\ cur \notin itInvoked]_vars
====
